---- MODULE Spec2Model ----
(***************************************************************************)
(* Model of os_fingerprint_cli.py: the interactive workflow of main() and  *)
(* the text classifier parse_os_fingerprint().                             *)
(*                                                                         *)
(* Text is a sequence of tokens.  The five literals the classifier looks   *)
(* for are one token each, "NL" is the newline, and "x", "y" stand for any *)
(* other character:                                                        *)
(*    "OSD"  = "OS details: "          "RUN"  = "Running: "                *)
(*    "NOEX" = "No exact OS matches"   "MANY" = "Too many fingerprints     *)
(*    "PERF" = "OS detection performed"          match"                    *)
(***************************************************************************)
EXTENDS Integers, Sequences, FiniteSets, TLC

VARIABLES pc, nmap_path, targets, scanmode, nmap_args, scan_i, results,
          fingerprints, panels, render_i, log, exit_status, exc, HAS_3D,
          spawned, proc, prompt, resolved, nprompts, ctext, cres

\* pc            where main() stands: "start", "collect", "select", "custom",
\*               "scan", "render", "map", "plot", "done"
\* nmap_path     config["DEFAULT"]["nmap_path"]
\* targets       the list built by interactive_target_selection
\* scanmode, nmap_args   what select_scan_mode returned
\* scan_i        index of the target the for loop of run_nmap_scan is at
\* results       the dict of run_nmap_scan, as (target, output) pairs
\* fingerprints  the dict of main(), as (target, osinfo) pairs
\* panels        the panels printed by main(), in order
\* render_i      index of the item the loop over results.items() is at
\* log           the other messages printed on the console, in order
\* exit_status   exit status of the process, -1 while it runs
\* exc           the exception main() was left with
\* HAS_3D        whether networkx and matplotlib were imported
\* spawned       the command lines subprocess.run was given, in order
\* proc          how the latest subprocess.run ended
\* prompt        the latest line typed at the target prompt and its lookup
\* resolved      the addresses socket.gethostbyname has returned
\* nprompts      the number of non-blank lines typed at the target prompt
\* ctext, cres   a text given to parse_os_fingerprint and what it returned
vars == <<pc, nmap_path, targets, scanmode, nmap_args, scan_i, results,
          fingerprints, panels, render_i, log, exit_status, exc, HAS_3D,
          spawned, proc, prompt, resolved, nprompts, ctext, cres>>

wfvars == <<pc, nmap_path, targets, scanmode, nmap_args, scan_i, results,
            fingerprints, panels, render_i, log, exit_status, exc, HAS_3D,
            spawned, proc, prompt, resolved, nprompts>>

\* ---------------------------------------------------------------- bounds
\* longest raw text given to the classifier on its own
MaxLen == 5
\* number of non-blank submissions the operator makes at the target prompt
MaxInputs == 2
\* longest line typed at the target prompt
InputLen == 2

\* ------------------------------------------------------------- constants
None == "None"
Tokens == {"OSD", "RUN", "NOEX", "MANY", "PERF", "NL", "x", "y"}

SeqsUpTo(S, n) == UNION {[1..k -> S] : k \in 0..n}

Texts == SeqsUpTo(Tokens, MaxLen)

\* ------------------------------------------------------------ classifier
\* end of the line that position i lies on: the last index before the next
\* newline ("." does not match a newline, "+" is greedy)
RECURSIVE LineEnd(_, _)
LineEnd(s, i) ==
    IF i + 1 <= Len(s) /\ s[i + 1] # "NL" THEN LineEnd(s, i + 1) ELSE i

\* re.findall(pat + "(.+)", s) from position i on: the captured groups of
\* the non-overlapping matches, leftmost first.  A match needs the literal
\* and at least one following character that is not a newline.
RECURSIVE FindFrom(_, _, _)
FindFrom(pat, s, i) ==
    IF i > Len(s) THEN << >>
    ELSE IF s[i] = pat /\ i + 1 <= Len(s) /\ s[i + 1] # "NL"
         THEN LET e == LineEnd(s, i + 1)
              IN  << SubSeq(s, i + 1, e) >> \o FindFrom(pat, s, e + 1)
         ELSE FindFrom(pat, s, i + 1)

findall(pat, s) == FindFrom(pat, s, 1)

\* the Python test: literal in nmap_output
Contains(lit, s) == \E i \in 1..Len(s) : s[i] = lit

\* the returned markup string "[tag]text[/tag]"
Markup(tag, text) == [tag |-> tag, text |-> text]

\* the classifier with the two regular expressions tried in the other order
parse_guess_first(nmap_output) ==
    IF nmap_output = << >> THEN Markup("danger", <<"No output received">>)
    ELSE LET os_match == findall("OSD", nmap_output)
             os_guess == findall("RUN", nmap_output)
         IN  IF os_guess # << >> THEN Markup("os", os_guess[1])
             ELSE IF os_match # << >> THEN Markup("os", os_match[1])
             ELSE IF Contains("NOEX", nmap_output)
                  THEN Markup("warning", <<"No exact OS match found">>)
             ELSE IF Contains("MANY", nmap_output)
                  THEN Markup("warning", <<"Too many fingerprints matched">>)
             ELSE IF Contains("PERF", nmap_output)
                  THEN Markup("warning", <<"OS detection performed, but inconclusive">>)
             ELSE Markup("danger", <<"Could not parse OS fingerprint">>)

\* the classifier taking the last "Running:" line instead of the first
parse_last_guess(nmap_output) ==
    IF nmap_output = << >> THEN Markup("danger", <<"No output received">>)
    ELSE LET os_match == findall("OSD", nmap_output)
             os_guess == findall("RUN", nmap_output)
         IN  IF os_match # << >> THEN Markup("os", os_match[1])
             ELSE IF os_guess # << >> THEN Markup("os", os_guess[Len(os_guess)])
             ELSE IF Contains("NOEX", nmap_output)
                  THEN Markup("warning", <<"No exact OS match found">>)
             ELSE IF Contains("MANY", nmap_output)
                  THEN Markup("warning", <<"Too many fingerprints matched">>)
             ELSE IF Contains("PERF", nmap_output)
                  THEN Markup("warning", <<"OS detection performed, but inconclusive">>)
             ELSE Markup("danger", <<"Could not parse OS fingerprint">>)

\* the classifier with the first two substring tests swapped
parse_many_first(nmap_output) ==
    IF nmap_output = << >> THEN Markup("danger", <<"No output received">>)
    ELSE LET os_match == findall("OSD", nmap_output)
             os_guess == findall("RUN", nmap_output)
         IN  IF os_match # << >> THEN Markup("os", os_match[1])
             ELSE IF os_guess # << >> THEN Markup("os", os_guess[1])
             ELSE IF Contains("MANY", nmap_output)
                  THEN Markup("warning", <<"Too many fingerprints matched">>)
             ELSE IF Contains("NOEX", nmap_output)
                  THEN Markup("warning", <<"No exact OS match found">>)
             ELSE IF Contains("PERF", nmap_output)
                  THEN Markup("warning", <<"OS detection performed, but inconclusive">>)
             ELSE Markup("danger", <<"Could not parse OS fingerprint">>)

parse_os_fingerprint(nmap_output) ==
    IF nmap_output = << >> THEN Markup("danger", <<"No output received">>)
    ELSE LET os_match == findall("OSD", nmap_output)
             os_guess == findall("RUN", nmap_output)
         IN  IF os_match # << >> THEN Markup("os", os_match[1])
             ELSE IF os_guess # << >> THEN Markup("os", os_guess[1])
             ELSE IF Contains("NOEX", nmap_output)
                  THEN Markup("warning", <<"No exact OS match found">>)
             ELSE IF Contains("MANY", nmap_output)
                  THEN Markup("warning", <<"Too many fingerprints matched">>)
             ELSE IF Contains("PERF", nmap_output)
                  THEN Markup("warning", <<"OS detection performed, but inconclusive">>)
             ELSE Markup("danger", <<"Could not parse OS fingerprint">>)

\* ---------------------------------------------------------- the workflow
\* what the operator can type at the target prompt: lines of blanks and "a"
InputChars == {" ", "a"}
Inputs == SeqsUpTo(InputChars, InputLen)

\* the addresses name resolution can return
Addresses == {"10.0.0.1", "10.0.0.2"}
\* socket.gethostbyname(name): an address, socket.gaierror, or another
\* exception (UnicodeError for a label the idna codec rejects)
LookupOutcomes == Addresses \cup {"gaierror", "UnicodeError"}

NmapPaths == {"nmap"}
CustomArgs == {"-O", "-A"}
StdoutTexts == {<< >>, <<"OSD", "x">>}
StderrTexts == {<< >>, <<"y">>}
ReturnCodes == {0, 1}

SCAN_MODES ==
    [quick      |-> "-O --osscan-guess --max-retries 1 --host-timeout 30s",
     aggressive |-> "-O -T4 --osscan-guess --version-all --max-retries 3"]

\* str.strip()
RECURSIVE lstrip(_)
lstrip(s) == IF s # << >> /\ Head(s) = " " THEN lstrip(Tail(s)) ELSE s
RECURSIVE rstrip(_)
rstrip(s) ==
    IF s # << >> /\ s[Len(s)] = " " THEN rstrip(SubSeq(s, 1, Len(s) - 1)) ELSE s
strip(s) == rstrip(lstrip(s))

\* a Python dict: the (key, value) pairs in insertion order
DictHas(d, k) == \E i \in 1..Len(d) : d[i][1] = k
DictSet(d, k, v) ==
    IF DictHas(d, k)
    THEN [i \in 1..Len(d) |-> IF d[i][1] = k THEN <<k, v>> ELSE d[i]]
    ELSE Append(d, <<k, v>>)
DictGet(d, k) == d[CHOOSE i \in 1..Len(d) : d[i][1] = k][2]
Keys(d) == [i \in 1..Len(d) |-> d[i][1]]

NoProc == [target |-> None, how |-> None, stdout |-> << >>, stderr |-> << >>,
           returncode |-> 0]
NoPrompt == [input |-> << >>, lookup |-> None]

Init ==
    /\ pc = "start"
    /\ nmap_path = None
    /\ targets = << >>
    /\ scanmode = None
    /\ nmap_args = None
    /\ scan_i = 1
    /\ results = << >>
    /\ fingerprints = << >>
    /\ panels = << >>
    /\ render_i = 1
    /\ log = << >>
    /\ exit_status = -1
    /\ exc = None
    /\ HAS_3D \in BOOLEAN
    /\ spawned = << >>
    /\ proc = NoProc
    /\ prompt = NoPrompt
    /\ resolved = {}
    /\ nprompts = 0
    /\ ctext = << >>
    /\ cres = << >>

\* the try/except around main(): an exception that leaves main() is one of
\* KeyboardInterrupt, an Exception subclass, or SystemExit(1), which neither
\* handler catches and which ends the process with its code
\* the entrypoint with a bare "except:" in place of "except Exception"
entrypoint_catch_all(e) ==
    CASE e = "KeyboardInterrupt" -> [out |-> << <<"Aborted by user", None>> >>, status |-> 0]
      [] e = "Exception"         -> [out |-> << <<"Error", None>> >>, status |-> 0]
      [] e = "SystemExit"        -> [out |-> << <<"Error", None>> >>, status |-> 0]
      [] OTHER                   -> [out |-> << >>, status |-> 0]

\* the entrypoint without the KeyboardInterrupt handler
entrypoint_no_abort(e) ==
    CASE e = "KeyboardInterrupt" -> [out |-> << >>, status |-> 130]
      [] e = "Exception"         -> [out |-> << <<"Error", None>> >>, status |-> 0]
      [] e = "SystemExit"        -> [out |-> << >>, status |-> 1]
      [] OTHER                   -> [out |-> << >>, status |-> 0]

entrypoint(e) ==
    CASE e = "KeyboardInterrupt" -> [out |-> << <<"Aborted by user", None>> >>, status |-> 0]
      [] e = "Exception"         -> [out |-> << <<"Error", None>> >>, status |-> 0]
      [] e = "SystemExit"        -> [out |-> << >>, status |-> 1]
      [] OTHER                   -> [out |-> << >>, status |-> 0]

\* main() is left with exception e (None: it returned) after printing said
Leave(e, said) ==
    /\ pc' = "done"
    /\ exc' = e
    /\ log' = log \o said \o entrypoint(e).out
    /\ exit_status' = entrypoint(e).status

LoadConfig ==
    /\ pc = "start"
    /\ \E p \in NmapPaths : nmap_path' = p
    /\ pc' = "collect"
    /\ log' = Append(log, <<"Welcome", None>>)
    /\ UNCHANGED <<targets, scanmode, nmap_args, scan_i, results, fingerprints,
                   panels, render_i, exit_status, exc, HAS_3D, spawned, proc,
                   prompt, resolved, nprompts, ctext, cres>>

\* resolve_host falling back to the wildcard address when the lookup fails
resolve_host_fallback(target, lookup) ==
    IF lookup = "gaierror" THEN "0.0.0.0" ELSE lookup

resolve_host(target, lookup) == IF lookup = "gaierror" THEN None ELSE lookup

\* one pass of the while loop of interactive_target_selection, and, when the
\* loop is left, the zero-targets test of main()
PromptTarget ==
    /\ pc = "collect"
    /\ \E target \in Inputs :
         IF strip(target) = << >>
         THEN /\ prompt' = [input |-> target, lookup |-> None]
              /\ IF targets = << >>
                 THEN Leave("SystemExit", << <<"No targets provided", None>> >>)
                 ELSE /\ pc' = "select"
                      /\ UNCHANGED <<log, exit_status, exc>>
              /\ UNCHANGED <<targets, resolved, nprompts>>
         ELSE /\ nprompts < MaxInputs
              /\ nprompts' = nprompts + 1
              /\ \E lookup \in LookupOutcomes :
                   /\ prompt' = [input |-> target, lookup |-> lookup]
                   /\ resolved' = IF lookup \in Addresses
                                  THEN resolved \cup {lookup} ELSE resolved
                   /\ IF lookup = "UnicodeError"
                      THEN /\ Leave("Exception", << >>)
                           /\ UNCHANGED targets
                      ELSE LET ip == resolve_host(strip(target), lookup)
                           IN  /\ IF ip # None
                                  THEN /\ targets' = Append(targets, ip)
                                       /\ log' = Append(log, <<"Added", ip>>)
                                  ELSE /\ targets' = targets
                                       /\ log' = Append(log, <<"Invalid target", target>>)
                               /\ UNCHANGED <<pc, exit_status, exc>>
    /\ UNCHANGED <<nmap_path, scanmode, nmap_args, scan_i, results, fingerprints,
                   panels, render_i, HAS_3D, spawned, proc, ctext, cres>>

\* select_scan_mode up to its return or to the custom-arguments prompt
SelectMode ==
    /\ pc = "select"
    /\ \E choice \in {"1", "2", "3"} :
         CASE choice = "1" -> /\ scanmode' = "quick"
                              /\ nmap_args' = SCAN_MODES.quick
                              /\ pc' = "scan"
                              /\ log' = Append(log, <<"Selected scan mode", "quick">>)
           [] choice = "2" -> /\ scanmode' = "aggressive"
                              /\ nmap_args' = SCAN_MODES.aggressive
                              /\ pc' = "scan"
                              /\ log' = Append(log, <<"Selected scan mode", "aggressive">>)
           [] choice = "3" -> /\ pc' = "custom"
                              /\ UNCHANGED <<scanmode, nmap_args, log>>
    \* the frame of interactive_target_selection, and its last line, are gone
    /\ prompt' = NoPrompt
    /\ UNCHANGED <<nmap_path, targets, scan_i, results, fingerprints, panels,
                   render_i, exit_status, exc, HAS_3D, spawned, proc,
                   resolved, nprompts, ctext, cres>>

EnterCustomArgs ==
    /\ pc = "custom"
    /\ \E custom_args \in CustomArgs :
         /\ scanmode' = "custom"
         /\ nmap_args' = custom_args
    /\ pc' = "scan"
    /\ log' = Append(log, <<"Selected scan mode", "custom">>)
    /\ UNCHANGED <<nmap_path, targets, scan_i, results, fingerprints, panels,
                   render_i, exit_status, exc, HAS_3D, spawned, proc, prompt,
                   resolved, nprompts, ctext, cres>>

\* ------------------------------------------------------------ run_nmap_scan
\* the end of one pass of the for loop: the next target, or the return to
\* main() and the start of its loop over results.items()
NextTarget ==
    IF scan_i < Len(targets)
    THEN /\ scan_i' = scan_i + 1
         /\ pc' = "scan"
         /\ UNCHANGED render_i
    ELSE /\ pc' = "render"
         /\ render_i' = 1
         /\ UNCHANGED scan_i

Cmd(target) == <<nmap_path, nmap_args, target>>

\* the child ends within the timeout with some output and exit status
ScanExit ==
    /\ pc = "scan"
    /\ LET target == targets[scan_i]
       IN  \E out \in StdoutTexts, err \in StderrTexts, rc \in ReturnCodes :
             /\ spawned' = Append(spawned, Cmd(target))
             /\ proc' = [target |-> target, how |-> "exit", stdout |-> out,
                         stderr |-> err, returncode |-> rc]
             /\ results' = DictSet(results, target, out \o err)
             /\ log' = log \o << <<"Scanning", target>> >>
                           \o (IF rc # 0
                               THEN << <<"Nmap returned error", target>> >>
                               ELSE << >>)
    /\ NextTarget
    /\ UNCHANGED <<nmap_path, targets, scanmode, nmap_args, fingerprints, panels,
                   exit_status, exc, HAS_3D, prompt, resolved, nprompts,
                   ctext, cres>>

\* the timeout handler leaving the for loop
ScanTimeoutBreak ==
    /\ pc = "scan"
    /\ LET target == targets[scan_i]
       IN  /\ spawned' = Append(spawned, Cmd(target))
           /\ proc' = [target |-> target, how |-> "timeout", stdout |-> << >>,
                       stderr |-> << >>, returncode |-> 0]
           /\ results' = DictSet(results, target, << >>)
           /\ log' = log \o << <<"Scanning", target>>, <<"Scan timed out", target>> >>
    /\ pc' = "render"
    /\ render_i' = 1
    /\ UNCHANGED <<nmap_path, targets, scanmode, nmap_args, scan_i, fingerprints,
                   panels, exit_status, exc, HAS_3D, prompt, resolved, nprompts,
                   ctext, cres>>

\* subprocess.TimeoutExpired after 120 seconds
ScanTimeout ==
    /\ pc = "scan"
    /\ LET target == targets[scan_i]
       IN  /\ spawned' = Append(spawned, Cmd(target))
           /\ proc' = [target |-> target, how |-> "timeout", stdout |-> << >>,
                       stderr |-> << >>, returncode |-> 0]
           /\ results' = DictSet(results, target, << >>)
           /\ log' = log \o << <<"Scanning", target>>, <<"Scan timed out", target>> >>
    /\ NextTarget
    /\ UNCHANGED <<nmap_path, targets, scanmode, nmap_args, fingerprints, panels,
                   exit_status, exc, HAS_3D, prompt, resolved, nprompts,
                   ctext, cres>>

\* the launch failure handled like a timeout: an empty result, next target
ScanLaunchErrorSkip ==
    /\ pc = "scan"
    /\ LET target == targets[scan_i]
       IN  /\ proc' = [target |-> target, how |-> "error", stdout |-> << >>,
                       stderr |-> << >>, returncode |-> 0]
           /\ results' = DictSet(results, target, << >>)
           /\ log' = log \o << <<"Scanning", target>> >>
    /\ NextTarget
    /\ UNCHANGED <<nmap_path, targets, scanmode, nmap_args, fingerprints, panels,
                   exit_status, exc, HAS_3D, spawned, prompt, resolved, nprompts,
                   ctext, cres>>

\* subprocess.run raises something other than TimeoutExpired (the program
\* cannot be launched): no handler in run_nmap_scan or main()
ScanLaunchError ==
    /\ pc = "scan"
    /\ LET target == targets[scan_i]
       IN  /\ proc' = [target |-> target, how |-> "error", stdout |-> << >>,
                       stderr |-> << >>, returncode |-> 0]
           /\ Leave("Exception", << <<"Scanning", target>> >>)
    /\ UNCHANGED <<nmap_path, targets, scanmode, nmap_args, scan_i, results,
                   fingerprints, panels, render_i, HAS_3D, spawned, prompt,
                   resolved, nprompts, ctext, cres>>

\* the operator interrupts while the child runs
ScanInterrupt ==
    /\ pc = "scan"
    /\ LET target == targets[scan_i]
       IN  /\ spawned' = Append(spawned, Cmd(target))
           /\ proc' = [target |-> target, how |-> "interrupt", stdout |-> << >>,
                       stderr |-> << >>, returncode |-> 0]
           /\ Leave("KeyboardInterrupt", << <<"Scanning", target>> >>)
    /\ UNCHANGED <<nmap_path, targets, scanmode, nmap_args, scan_i, results,
                   fingerprints, panels, render_i, HAS_3D, prompt, resolved,
                   nprompts, ctext, cres>>

\* ------------------------------------------------------- main(), after scan
\* one pass of the loop over results.items()
RenderEntry ==
    /\ pc = "render"
    /\ LET target == results[render_i][1]
           output == results[render_i][2]
           osinfo == parse_os_fingerprint(output)
       IN  /\ fingerprints' = DictSet(fingerprints, target, osinfo)
           /\ panels' = Append(panels, [target |-> target, osinfo |-> osinfo])
    /\ IF render_i < Len(results)
       THEN /\ render_i' = render_i + 1
            /\ pc' = "render"
       ELSE /\ pc' = "map"
            /\ UNCHANGED render_i
    /\ UNCHANGED <<nmap_path, targets, scanmode, nmap_args, scan_i, results, log,
                   exit_status, exc, HAS_3D, spawned, proc, prompt, resolved,
                   nprompts, ctext, cres>>

\* the 3D map option: asked only when the plotting libraries were imported
MapOption ==
    /\ pc = "map"
    /\ IF HAS_3D
       THEN \E answer \in {"y", "n"} :
              IF answer = "y"
              THEN /\ pc' = "plot"
                   /\ UNCHANGED <<log, exit_status, exc>>
              ELSE Leave(None, << <<"Scan complete", None>> >>)
       ELSE Leave(None, << <<"Scan complete", None>> >>)
    /\ UNCHANGED <<nmap_path, targets, scanmode, nmap_args, scan_i, results,
                   fingerprints, panels, render_i, HAS_3D, spawned, proc, prompt,
                   resolved, nprompts, ctext, cres>>

\* plot_3d_network_map draws the map and returns when its window is closed
Plot ==
    /\ pc = "plot"
    /\ Leave(None, << <<"3D Network Map", None>>, <<"Scan complete", None>> >>)
    /\ UNCHANGED <<nmap_path, targets, scanmode, nmap_args, scan_i, results,
                   fingerprints, panels, render_i, HAS_3D, spawned, proc, prompt,
                   resolved, nprompts, ctext, cres>>

\* the steps other than the scan at which main() can be left by an exception:
\* the config file, a prompt, a console write, the plot
Steps == {"start", "collect", "select", "custom", "render", "map", "plot"}

Raise ==
    /\ pc \in Steps
    /\ Leave("Exception", << >>)
    /\ UNCHANGED <<nmap_path, targets, scanmode, nmap_args, scan_i, results,
                   fingerprints, panels, render_i, HAS_3D, spawned, proc, prompt,
                   resolved, nprompts, ctext, cres>>

Interrupt ==
    /\ pc \in Steps
    /\ Leave("KeyboardInterrupt", << >>)
    /\ UNCHANGED <<nmap_path, targets, scanmode, nmap_args, scan_i, results,
                   fingerprints, panels, render_i, HAS_3D, spawned, proc, prompt,
                   resolved, nprompts, ctext, cres>>

Next ==
    \/ LoadConfig
    \/ PromptTarget
    \/ SelectMode
    \/ EnterCustomArgs
    \/ ScanExit
    \/ ScanTimeout
    \/ ScanLaunchError
    \/ ScanInterrupt
    \/ RenderEntry
    \/ MapOption
    \/ Plot
    \/ Raise
    \/ Interrupt

Spec == Init /\ [][Next]_vars

\* ------------------------------------------- the classifier on its own
ClassifyInit ==
    /\ pc = "start"
    /\ nmap_path = None
    /\ targets = << >>
    /\ scanmode = None
    /\ nmap_args = None
    /\ scan_i = 1
    /\ results = << >>
    /\ fingerprints = << >>
    /\ panels = << >>
    /\ render_i = 1
    /\ log = << >>
    /\ exit_status = -1
    /\ exc = None
    /\ HAS_3D = FALSE
    /\ spawned = << >>
    /\ proc = NoProc
    /\ prompt = NoPrompt
    /\ resolved = {}
    /\ nprompts = 0
    /\ ctext \in Texts
    /\ cres = << >>

\* osinfo = parse_os_fingerprint(output) for the text at hand
Classify ==
    /\ cres = << >>
    /\ cres' = << parse_os_fingerprint(ctext) >>
    /\ UNCHANGED ctext
    /\ UNCHANGED wfvars

ClassifyNext == Classify

SpecClassify == ClassifyInit /\ [][ClassifyNext]_vars

\* ================================================================ claims
\* s has a line "<pat>X" with X non-empty
HasLine(pat, s) == \E i \in 1..(Len(s) - 1) : s[i] = pat /\ s[i + 1] # "NL"

\* the X of the first line "<pat>X" of s: the text between the first
\* occurrence of pat that something follows on its line and the line's end
FirstDetail(pat, s) ==
    LET i == CHOOSE i \in 1..(Len(s) - 1) :
                 /\ s[i] = pat /\ s[i + 1] # "NL"
                 /\ \A j \in 1..(i - 1) : ~(s[j] = pat /\ s[j + 1] # "NL")
        e == CHOOSE e \in (i + 1)..Len(s) :
                 /\ \A k \in (i + 1)..e : s[k] # "NL"
                 /\ (e = Len(s) \/ s[e + 1] = "NL")
    IN  SubSeq(s, i + 1, e)

Classified == cres # << >>
Said(msg) == \E i \in 1..Len(log) : log[i][1] = msg
LastSaid == IF log = << >> THEN None ELSE log[Len(log)][1]

\* C1: a text with a line "OS details: X" is classified as the OS match
\* "[os]X[/os]" with the X of the first such line, whatever "Running:" lines
\* the text also has and wherever they are.
C1_ExactMatchWins ==
    (Classified /\ HasLine("OSD", ctext))
        => cres[1] = [tag |-> "os", text |-> FirstDetail("OSD", ctext)]

\* a "Running:" line comes before the "OS details:" line and the text is classified
C1_Witness ==
    Classified /\ ctext = <<"RUN", "y", "NL", "OSD", "x">>

Occurring(s) == {s[i] : i \in 1..Len(s)}

\* C3: without an "OS details:" or "Running:" line the result is exactly one
\* of five, by priority: empty, no exact match, too many, inconclusive,
\* unparseable.
C3_FallbackPriority ==
    (Classified /\ ~HasLine("OSD", ctext) /\ ~HasLine("RUN", ctext))
        => LET r == cres[1]
               o == Occurring(ctext)
           IN  /\ r \in {[tag |-> "danger",  text |-> <<"No output received">>],
                         [tag |-> "warning", text |-> <<"No exact OS match found">>],
                         [tag |-> "warning", text |-> <<"Too many fingerprints matched">>],
                         [tag |-> "warning", text |-> <<"OS detection performed, but inconclusive">>],
                         [tag |-> "danger",  text |-> <<"Could not parse OS fingerprint">>]}
               /\ (r.text = <<"No output received">>) <=> (ctext = << >>)
               /\ (r.text = <<"No exact OS match found">>) <=> ("NOEX" \in o)
               /\ (r.text = <<"Too many fingerprints matched">>)
                      <=> ("MANY" \in o /\ "NOEX" \notin o)
               /\ (r.text = <<"OS detection performed, but inconclusive">>)
                      <=> ("PERF" \in o /\ "MANY" \notin o /\ "NOEX" \notin o)
               /\ (r.text = <<"Could not parse OS fingerprint">>)
                      <=> (ctext # << >> /\ o \cap {"NOEX", "MANY", "PERF"} = {})

\* all three substrings in one text, lowest priority first
C3_Witness ==
    Classified /\ ctext = <<"PERF", "x", "MANY", "NL", "NOEX">>

\* ---- run_nmap_scan
C4_Inv ==
    /\ Len(spawned) <= Len(targets)
    /\ \A i \in 1..Len(spawned) : spawned[i] = <<nmap_path, nmap_args, targets[i]>>
    /\ (pc = "scan" => Len(spawned) = scan_i - 1)
    /\ (pc \in {"render", "map", "plot"} \/ (pc = "done" /\ exc = None /\ targets # << >>))
           => Len(spawned) = Len(targets)

C4_Step ==
    (pc = "scan" /\ proc'.how \in {"timeout", "exit"})
        => LET target == targets[scan_i]
           IN  /\ spawned' = Append(spawned, <<nmap_path, nmap_args, target>>)
               /\ proc'.how = "timeout"
                      => /\ DictGet(results', target) = << >>
                         /\ log'[Len(log')] = <<"Scan timed out", target>>
               /\ proc'.how = "exit"
                      => DictGet(results', target) = proc'.stdout \o proc'.stderr
               /\ exc' = None
               /\ targets' = targets
               /\ IF scan_i < Len(targets)
                  THEN pc' = "scan" /\ scan_i' = scan_i + 1
                  ELSE pc' = "render"

C5_ErrorExitsNonZero ==
    (pc = "done" /\ exc = "Exception")
        => (LastSaid = "Error" /\ exit_status # 0)

\* ---- zero targets
C6_Inv ==
    /\ (exc = "SystemExit")
           => /\ pc = "done" /\ targets = << >> /\ exit_status = 1
              /\ LastSaid = "No targets provided"
              /\ ~Said("Error") /\ ~Said("Aborted by user") /\ ~Said("Scan complete")
    /\ (targets = << >>)
           => /\ pc \in {"start", "collect", "done"}
              /\ scanmode = None /\ nmap_args = None /\ spawned = << >>

C6_Step ==
    (pc = "collect" /\ targets = << >> /\ pc' # "collect"
        /\ exc' \notin {"Exception", "KeyboardInterrupt"})
        => (pc' = "done" /\ exc' = "SystemExit" /\ exit_status' = 1)

\* C6: when collection ends with no target the run reports it and exits with
\* status 1, no scan mode was selected and no child spawned, and no handler
\* of the entrypoint turns the exit into status 0 or a generic error.
C6_ZeroTargetsExit == [] C6_Inv /\ [][C6_Step]_vars

\* every submission failed resolution, then a blank ended the collection
C6_Witness ==
    exc = "SystemExit" /\ nprompts = MaxInputs /\ Said("Invalid target")

\* C7: once the report is rendered it has one entry per target of the
\* target list, in the order of the list.
C7_OneEntryPerTarget ==
    (pc \in {"map", "plot"} \/ (pc = "done" /\ Said("Scan complete")))
        => [i \in 1..Len(panels) |-> panels[i].target] = targets

\* ---- target collection
C8_Inv == \A i \in 1..Len(targets) : targets[i] \in resolved

C8_Step ==
    /\ (nprompts' = nprompts + 1)
           => /\ strip(prompt'.input) # << >>
              /\ prompt'.lookup = "gaierror"
                     => /\ targets' = targets
                        /\ pc' = "collect" /\ exc' = None
                        /\ log' = Append(log, <<"Invalid target", prompt'.input>>)
              /\ prompt'.lookup \in Addresses
                     => /\ targets' = Append(targets, prompt'.lookup)
                        /\ pc' = "collect" /\ exc' = None
    /\ (pc = "collect" /\ pc' # "collect"
            /\ exc' \notin {"Exception", "KeyboardInterrupt"})
           => /\ strip(prompt'.input) = << >>
              /\ prompt'.lookup = None
              /\ nprompts' = nprompts
              /\ targets' = targets

C9_InterruptAborts ==
    (exc = "KeyboardInterrupt")
        => /\ pc = "done"
           /\ LastSaid = "Aborted by user"
           /\ ~Said("Error") /\ ~Said("Scan complete")
           /\ exit_status = 0
           /\ ~ENABLED Next

\* interrupted during the scan of the first of two targets
C9_Witness ==
    /\ exc = "KeyboardInterrupt" /\ proc.how = "interrupt"
    /\ Len(targets) = 2 /\ Len(spawned) = 1

\* ---- launch failure
C10_Inv ==
    /\ (panels # << >>) => (pc # "scan" /\ Len(spawned) = Len(targets))
    /\ (proc.how = "error")
           => /\ pc = "done" /\ exc = "Exception"
              /\ panels = << >> /\ fingerprints = << >>
              /\ Len(spawned) = scan_i - 1
              /\ LastSaid = "Error" /\ ~Said("Scan complete")
              /\ ~ENABLED Next

\* C10: no report entry is rendered before the whole list is scanned; when
\* the child of one target cannot be run, no later target is scanned, nothing
\* is rendered, and the run ends with the generic error and no completion.
C10_LaunchFailureLosesAll == C10_Inv

\* the second of two targets cannot be launched after the first was scanned
C10_Witness ==
    /\ proc.how = "error" /\ scan_i = 2 /\ Len(targets) = 2
    /\ results = << <<targets[1], <<"OSD", "x">> >> >>

====
